---- MODULE Spec2Model ----
(***************************************************************************)
(* Model of the JobForge scraper service (server.js): the POST /api/scrape *)
(* handler, the supplier classifier and the two login flows.               *)
(*                                                                         *)
(* A JavaScript string is a record [str |-> <<atoms>>], a sequence of text *)
(* atoms, so that String.includes is a real contiguous-substring test.     *)
(* The JavaScript value undefined is the record [undefined |-> TRUE].      *)
(* The handler is an async function: it runs synchronously up to an await, *)
(* and each action below is the settling (resolve or reject) of the        *)
(* promise the handler is suspended on, followed by all the synchronous    *)
(* code up to the next await.  pc names the awaited call.                  *)
(***************************************************************************)
EXTENDS Integers, Sequences, FiniteSets, TLC

\* ------------------------------------------------------------------ bounds
NumReqs == 2            \* request slots of the server
MaxUrlLen == 4          \* atoms in a URL handed to the classifier

Reqs == 1..NumReqs

\* ------------------------------------------------------------- JS values
undefined == [undefined |-> TRUE]
Str(s) == [str |-> s]

\* the JavaScript value null
null == [null |-> TRUE]
EmptyString == Str(<< >>)

\* JavaScript truthiness of a string-or-undefined value
Truthy(v) == v # undefined /\ v # null /\ v # EmptyString

\* String.prototype.includes: frag occurs as a contiguous run of s
includes(s, frag) ==
    \E i \in 1..(Len(s.str) - Len(frag.str) + 1) :
        SubSeq(s.str, i, i + Len(frag.str) - 1) = frag.str

\* String.prototype.toLowerCase, atom by atom
LowerAtom(a) ==
    CASE a = "Richelieu" -> "richelieu"
      [] a = "RICHELIEU" -> "richelieu"
      [] a = " Hardware" -> " hardware"
      [] a = "Acme"      -> "acme"
      [] a = "MSRP"      -> "msrp"
      [] a = "List"      -> "list"
      [] OTHER           -> a
toLowerCase(s) == Str([i \in 1..Len(s.str) |-> LowerAtom(s.str[i])])

\* --------------------------------------------------- supplier classifier
Richelieu == Str(<<"Richelieu">>)
HomeDepot == Str(<<"Home Depot">>)
Lowes     == Str(<<"Lowe's">>)
Amazon    == Str(<<"Amazon">>)
Generic   == Str(<<"Generic">>)

\* a classifier that tests Amazon before Richelieu (priority order broken)
detectSupplierReordered(url) ==
    IF includes(url, Str(<<"amazon", ".com">>)) \/ includes(url, Str(<<"amazon", ".ca">>))
    THEN Amazon
    ELSE IF includes(url, Str(<<"homedepot", ".com">>)) \/ includes(url, Str(<<"homedepot", ".ca">>))
    THEN HomeDepot
    ELSE IF includes(url, Str(<<"lowes", ".com">>)) \/ includes(url, Str(<<"lowes", ".ca">>))
    THEN Lowes
    ELSE IF includes(url, Str(<<"richelieu", ".com">>))
    THEN Richelieu
    ELSE Generic

detectSupplier(url) ==
    IF includes(url, Str(<<"richelieu", ".com">>))
    THEN Richelieu
    ELSE IF includes(url, Str(<<"homedepot", ".com">>)) \/ includes(url, Str(<<"homedepot", ".ca">>))
    THEN HomeDepot
    ELSE IF includes(url, Str(<<"lowes", ".com">>)) \/ includes(url, Str(<<"lowes", ".ca">>))
    THEN Lowes
    ELSE IF includes(url, Str(<<"amazon", ".com">>)) \/ includes(url, Str(<<"amazon", ".ca">>))
    THEN Amazon
    ELSE Generic


\* ------------------------------------------------------------ the inputs
Atoms == {"x", "richelieu", "homedepot", "lowes", "amazon", ".com", ".ca"}

\* every URL string of at most MaxUrlLen atoms (input of the classifier)
AllUrls == {Str(s) : s \in UNION {[1..n -> Atoms] : n \in 0..MaxUrlLen}}

RichelieuUrl == Str(<<"x", "richelieu", ".com", "x">>)
HomeDepotUrl == Str(<<"x", "homedepot", ".ca", "x">>)
LowesUrl     == Str(<<"lowes", ".com">>)
AmazonUrl    == Str(<<"amazon", ".ca", "x">>)
OtherUrl     == Str(<<"x", ".com">>)

\* req.body.url as the caller may send it
Urls == {undefined, EmptyString, RichelieuUrl, HomeDepotUrl, LowesUrl, AmazonUrl, OtherUrl}

Username  == Str(<<"alice@example.com">>)
Password  == Str(<<"hunter2">>)
LoginPage == Str(<<"x", ".com", "login">>)

\* req.body.credentials: absent (undefined) or an object whose fields may
\* each be missing; username and password may also be the empty string
CredentialObjects ==
    [supplierName : {undefined, Str(<<"Richelieu", " Hardware">>), Str(<<"Acme">>)},
     username     : {undefined, EmptyString, Username},
     password     : {undefined, EmptyString, Password},
     loginUrl     : {undefined, LoginPage}]

Credentials == {undefined} \cup CredentialObjects

\* optional chaining credentials?.field
Field(credentials, f) == IF credentials = undefined THEN undefined ELSE credentials[f]

DefaultSecret == Str(<<"default-secret">>)
RailwaySecret == Str(<<"railway-secret">>)

\* process.env.RAILWAY_SCRAPER_SECRET
EnvSecrets == {undefined, RailwaySecret}

\* the template string `Bearer ${expectedToken}`
Bearer(token) == Str(<<"Bearer ">> \o token.str)

\* req.headers.authorization
AuthHeaders == {undefined, Bearer(DefaultSecret), Bearer(RailwaySecret), RailwaySecret}

\* the default login page of loginToRichelieu
RichelieuLoginUrl == Str(<<"x", "richelieu", ".com", "user/login">>)

\* --------------------------------------------------------------- state
VARIABLES
    env,        \* process.env.RAILWAY_SCRAPER_SECRET
    handler,    \* per request: the awaited call (pc) and the handler's locals
    host,       \* per request: the browser session and the calls made on it
    logs,       \* per request: console.log / console.error entries
    res,        \* per request: responses sent to the caller
    probe,      \* last direct call of detectSupplier: argument and result
    page        \* a loaded page and what an extraction strategy returned for it

vars == <<env, handler, host, logs, res, probe, page>>

IdleHandler ==
    [pc           |-> "idle",
     url          |-> undefined,
     credentials  |-> undefined,
     authHeader   |-> undefined,
     browser      |-> undefined,
     supplierName |-> undefined,
     productData  |-> undefined,
     screenshot   |-> undefined,
     error        |-> undefined]

\* the browser a request launched (its state and the location of its page)
\* and the calls the request's handler made
IdleHost == [session |-> "none", location |-> undefined, ops |-> << >>]

NoProbe == [url |-> undefined, supplierName |-> undefined]

\* no page is under extraction
NoPage == [dom |-> << >>, location |-> undefined, scraper |-> "", data |-> undefined,
           log |-> << >>]

Init ==
    /\ env \in EnvSecrets
    /\ handler = [r \in Reqs |-> IdleHandler]
    /\ host = [r \in Reqs |-> IdleHost]
    /\ logs = [r \in Reqs |-> << >>]
    /\ res = [r \in Reqs |-> << >>]
    /\ probe = NoProbe
    /\ page = NoPage

\* ------------------------------------------------------------- helpers
\* a console entry: the source line and the values printed in full
Log(lg, line, vals) == Append(lg, [line |-> line, vals |-> vals])

\* the host settles the call op(arg) the handler awaits at pc = at,
\* resolving it iff ok
Did(h, at, op, arg, ok) ==
    [h EXCEPT !.ops = Append(@, [at |-> at, op |-> op, arg |-> arg, ok |-> ok])]

\* the Error object a rejected host call carries (error.message)
ErrorOf(op) == Str(<<op, " failed">>)

Respond(r, status, body) == res' = [res EXCEPT ![r] = Append(@, [status |-> status, body |-> body])]

\* the session the handle in the handler's local `browser` designates
Target(r) == handler[r].browser.session

\* a call on the page or browser reached through the handler's own handle:
\* it leaves the session state as it is, and a page.goto that resolves
\* moves the page of that session to its argument
Settle(r, op, arg, ok) ==
    host' = [host EXCEPT ![r] = Did(@, handler[r].pc, op, arg, ok),
                         ![Target(r)].location = IF op = "page.goto" /\ ok THEN arg ELSE @]

\* a validation that rejects a missing url but lets the empty string through
UrlMissingUndefinedOnly(url) == url = undefined

\* if (!url)
UrlMissing(url) == ~Truthy(url)

\* process.env.RAILWAY_SCRAPER_SECRET || 'default-secret'
expectedToken == IF Truthy(env) THEN env ELSE DefaultSecret

\* a token check that only rejects a missing header
UnauthorizedOnlyMissing(authHeader) == ~Truthy(authHeader)

\* !authHeader || authHeader !== `Bearer ${expectedToken}`
Unauthorized(authHeader) == ~Truthy(authHeader) \/ authHeader # Bearer(expectedToken)

\* a login guard that forgets to test the password
ShouldLoginUsernameOnly(credentials) ==
    /\ credentials # undefined
    /\ Truthy(credentials.username)

\* credentials && credentials.username && credentials.password
ShouldLogin(credentials) ==
    /\ credentials # undefined
    /\ Truthy(credentials.username)
    /\ Truthy(credentials.password)

\* a supplier test that compares without lowering the case
IsRichelieuLoginCaseSensitive(credentials) ==
    /\ Truthy(credentials.supplierName)
    /\ includes(credentials.supplierName, Str(<<"richelieu">>))

\* credentials.supplierName && credentials.supplierName.toLowerCase().includes('richelieu')
IsRichelieuLogin(credentials) ==
    /\ Truthy(credentials.supplierName)
    /\ includes(toLowerCase(credentials.supplierName), Str(<<"richelieu">>))

\* a catch block that answers 500 without closing the browser
CatchNoClose(r, err) ==
    /\ logs' = [logs EXCEPT ![r] = Log(@, 140, {err})]
    /\ handler' = [handler EXCEPT ![r].error = err, ![r].pc = "done"]
    /\ Respond(r, 500, [error |-> "Failed to scrape product", details |-> err])

\* the outer catch block: log the error, close the browser if one was
\* launched (suspending on browser.close), else answer 500 at once
Catch(r, err) ==
    /\ logs' = [logs EXCEPT ![r] = Log(@, 140, {err})]
    /\ IF handler[r].browser # undefined
       THEN /\ handler' = [handler EXCEPT ![r].error = err, ![r].pc = "catch_close"]
            /\ UNCHANGED res
       ELSE /\ handler' = [handler EXCEPT ![r].error = err, ![r].pc = "done"]
            /\ Respond(r, 500, [error |-> "Failed to scrape product", details |-> err])

\* line 86-87: log and start the navigation to the product page
ProceedToNavigate(r, lg) ==
    /\ logs' = [logs EXCEPT ![r] = Log(lg, 86, {handler[r].url})]
    /\ handler' = [handler EXCEPT ![r].pc = "goto"]
    /\ UNCHANGED res

\* a login fault that is not caught locally and reaches the outer catch
LoginThrowPropagates(r, err) == Catch(r, err)

\* catch (loginError): log it and continue without login
LoginThrow(r, err) == ProceedToNavigate(r, Log(logs[r], 80, {err}))

\* the login call returned: 'Login complete, now navigating to product page...'
LoginReturn(r, lg) == ProceedToNavigate(r, Log(lg, 78, {}))

\* a step of a login flow that propagates its fault: on success the flow
\* suspends on the next call
LoginStep(r, at, op, arg, next) ==
    /\ handler[r].pc = at
    /\ \E ok \in BOOLEAN :
        /\ Settle(r, op, arg, ok)
        /\ IF ok
           THEN /\ handler' = [handler EXCEPT ![r].pc = next]
                /\ UNCHANGED <<logs, res>>
           ELSE LoginThrow(r, ErrorOf(op))
    /\ UNCHANGED <<env, probe, page>>

\* --------------------------------------------- POST /api/scrape, lines 18-60
\* the request arrives: log it, validate the url and the token, and start
\* the browser launch
ReceiveOf(r, url, credentials, authHeader) ==
    /\ handler[r].pc = "idle"
    /\  LET password == Field(credentials, "password")
            received == [line           |-> 19,
                         vals           |-> {url, Field(credentials, "supplierName"),
                                             Field(credentials, "username"),
                                             Field(credentials, "loginUrl")},
                         hasCredentials |-> credentials # undefined,
                         hasPassword    |-> Truthy(password),
                         passwordLength |-> IF Truthy(password) THEN Len(password.str) ELSE 0]
            h == [handler[r] EXCEPT !.url = url, !.credentials = credentials,
                                    !.authHeader = authHeader]
        IN  IF UrlMissing(url)
            THEN /\ handler' = [handler EXCEPT ![r] = [h EXCEPT !.pc = "done"]]
                 /\ logs' = [logs EXCEPT ![r] = Append(@, received)]
                 /\ Respond(r, 400, [error |-> "URL is required"])
            ELSE IF Unauthorized(authHeader)
            THEN /\ handler' = [handler EXCEPT ![r] = [h EXCEPT !.pc = "done"]]
                 /\ logs' = [logs EXCEPT ![r] = Log(Append(@, received), 41, {})]
                 /\ Respond(r, 401, [error |-> "Unauthorized"])
            ELSE /\ handler' = [handler EXCEPT ![r] = [h EXCEPT !.pc = "launch"]]
                 /\ logs' = [logs EXCEPT ![r] = Log(Append(@, received), 47, {url})]
                 /\ UNCHANGED res
    /\ UNCHANGED <<env, host, probe, page>>

\* a request with any body and any Authorization header
Receive(r) ==
    \E url \in Urls, credentials \in Credentials, authHeader \in AuthHeaders :
        ReceiveOf(r, url, credentials, authHeader)

\* a browser launch that hands out a browser another request already has
\* open, when there is one
LaunchPooled(r) ==
    /\ handler[r].pc = "launch"
    /\ \E ok \in BOOLEAN :
        LET pool == {q \in Reqs \ {r} : /\ handler[q].browser # undefined
                                        /\ host[handler[q].browser.session].session = "open"}
        IN  IF ok /\ pool # {}
            THEN \E q \in pool :
                    /\ host' = [host EXCEPT ![r] =
                                  Did(@, "launch", "chromium.launch", undefined, ok)]
                    /\ handler' = [handler EXCEPT ![r].browser = handler[q].browser,
                                                  ![r].pc = "newContext"]
                    /\ UNCHANGED <<logs, res>>
            ELSE /\ host' = [host EXCEPT ![r] =
                               [Did(@, "launch", "chromium.launch", undefined, ok)
                                  EXCEPT !.session = IF ok THEN "open" ELSE @]]
                 /\ IF ok
                    THEN /\ handler' = [handler EXCEPT ![r].browser = [session |-> r],
                                                       ![r].pc = "newContext"]
                         /\ UNCHANGED <<logs, res>>
                    ELSE Catch(r, ErrorOf("chromium.launch"))
    /\ UNCHANGED <<env, probe, page>>

\* await chromium.launch(...)
Launch(r) ==
    /\ handler[r].pc = "launch"
    /\ \E ok \in BOOLEAN :
        /\ host' = [host EXCEPT ![r] =
                      [Did(@, "launch", "chromium.launch", undefined, ok)
                         EXCEPT !.session = IF ok THEN "open" ELSE @]]
        /\ IF ok
           THEN /\ handler' = [handler EXCEPT ![r].browser = [session |-> r],
                                              ![r].pc = "newContext"]
                /\ UNCHANGED <<logs, res>>
           ELSE Catch(r, ErrorOf("chromium.launch"))
    /\ UNCHANGED <<env, probe, page>>

\* await browser.newContext(...)
NewContext(r) ==
    /\ handler[r].pc = "newContext"
    /\ \E ok \in BOOLEAN :
        /\ Settle(r, "browser.newContext", undefined, ok)
        /\ IF ok
           THEN /\ handler' = [handler EXCEPT ![r].pc = "newPage"]
                /\ UNCHANGED <<logs, res>>
           ELSE Catch(r, ErrorOf("browser.newContext"))
    /\ UNCHANGED <<env, probe, page>>

\* await context.newPage(), then lines 68-77 up to the first await of the
\* login flow chosen (or of the product navigation when there is none)
NewPage(r) ==
    /\ handler[r].pc = "newPage"
    /\ \E ok \in BOOLEAN :
        /\ Settle(r, "context.newPage", undefined, ok)
        /\ IF ~ok
           THEN Catch(r, ErrorOf("context.newPage"))
           ELSE LET credentials == handler[r].credentials
                    lg70 == Log(logs[r], 70, {Field(credentials, "supplierName")})
                IN  IF ~ShouldLogin(credentials)
                    THEN ProceedToNavigate(r, logs[r])
                    ELSE IF IsRichelieuLogin(credentials)
                    THEN /\ handler' = [handler EXCEPT ![r].pc = "rl_goto"]
                         /\ logs' = [logs EXCEPT ![r] = Log(lg70, 164, {})]
                         /\ UNCHANGED res
                    ELSE IF Truthy(credentials.loginUrl)
                    THEN /\ handler' = [handler EXCEPT ![r].pc = "gl_goto"]
                         /\ logs' = [logs EXCEPT ![r] = Log(lg70, 214, {credentials.loginUrl})]
                         /\ UNCHANGED res
                    ELSE LoginReturn(r, lg70)
    /\ UNCHANGED <<env, probe, page>>

\* ------------------------------------------- loginToRichelieu, lines 163-210
\* credentials.loginUrl || 'https://www.richelieu.com/ca/en/user/login'
RichelieuLoginTarget(credentials) ==
    IF Truthy(credentials.loginUrl) THEN credentials.loginUrl ELSE RichelieuLoginUrl

\* await page.goto(loginUrl, ...)
RlGoto(r) ==
    LoginStep(r, "rl_goto", "page.goto", RichelieuLoginTarget(handler[r].credentials), "rl_settle")

\* await page.waitForTimeout(2000)
RlSettle(r) == LoginStep(r, "rl_settle", "page.waitForTimeout", undefined, "rl_query")

\* a sign-in probe whose fault is not tolerated and reaches the outer catch
RlRevealPropagates(r) == Catch(r, ErrorOf("page.$"))

\* the inner catch of the sign-in probe: 'No sign in button found, ...'
RlRevealCaught(r) ==
    /\ handler' = [handler EXCEPT ![r].pc = "rl_waitForSelector"]
    /\ logs' = [logs EXCEPT ![r] = Log(@, 183, {})]
    /\ UNCHANGED res

\* await page.$('button:has-text("Sign In"), ...'): an element, null, or a fault
RlQuery(r) ==
    /\ handler[r].pc = "rl_query"
    /\ \E found \in {"element", "null", "fault"} :
        /\ Settle(r, "page.$", undefined, found # "fault")
        /\ CASE found = "element" ->
                  /\ handler' = [handler EXCEPT ![r].pc = "rl_click"]
                  /\ logs' = [logs EXCEPT ![r] = Log(@, 178, {})]
                  /\ UNCHANGED res
             [] found = "null" ->
                  /\ handler' = [handler EXCEPT ![r].pc = "rl_waitForSelector"]
                  /\ UNCHANGED <<logs, res>>
             [] found = "fault" -> RlRevealCaught(r)
    /\ UNCHANGED <<env, probe, page>>

\* await signInButton.click()
RlClick(r) ==
    /\ handler[r].pc = "rl_click"
    /\ \E ok \in BOOLEAN :
        /\ Settle(r, "signInButton.click", undefined, ok)
        /\ IF ok
           THEN /\ handler' = [handler EXCEPT ![r].pc = "rl_clickWait"]
                /\ UNCHANGED <<logs, res>>
           ELSE RlRevealCaught(r)
    /\ UNCHANGED <<env, probe, page>>

\* await page.waitForTimeout(1000) after the click
RlClickWait(r) ==
    /\ handler[r].pc = "rl_clickWait"
    /\ \E ok \in BOOLEAN :
        /\ Settle(r, "page.waitForTimeout", undefined, ok)
        /\ IF ok
           THEN /\ handler' = [handler EXCEPT ![r].pc = "rl_waitForSelector"]
                /\ UNCHANGED <<logs, res>>
           ELSE RlRevealCaught(r)
    /\ UNCHANGED <<env, probe, page>>

\* a visibility wait whose timeout is not tolerated and leaves the flow
RlWaitForSelectorStrict(r) ==
    LoginStep(r, "rl_waitForSelector", "page.waitForSelector", undefined, "rl_fillUser")

\* await page.waitForSelector(..., {state: 'visible', timeout: 5000}), tolerated
RlWaitForSelector(r) ==
    /\ handler[r].pc = "rl_waitForSelector"
    /\ \E ok \in BOOLEAN :
        /\ Settle(r, "page.waitForSelector", undefined, ok)
        /\ handler' = [handler EXCEPT ![r].pc = "rl_fillUser"]
        /\ logs' = [logs EXCEPT ![r] = IF ok THEN @ ELSE Log(@, 193, {})]
        /\ UNCHANGED res
    /\ UNCHANGED <<env, probe, page>>

\* await page.fill(<email selectors>, credentials.username, ...)
RlFillUser(r) ==
    LoginStep(r, "rl_fillUser", "page.fill", handler[r].credentials.username, "rl_fillPass")

\* await page.fill(<password selectors>, credentials.password, ...)
RlFillPass(r) ==
    LoginStep(r, "rl_fillPass", "page.fill", handler[r].credentials.password, "rl_submit")

\* await page.click(<submit selectors>)
RlSubmit(r) == LoginStep(r, "rl_submit", "page.click", undefined, "rl_finalWait")

\* await page.waitForTimeout(3000); 'Richelieu login completed'; return
RlFinalWait(r) ==
    /\ handler[r].pc = "rl_finalWait"
    /\ \E ok \in BOOLEAN :
        /\ Settle(r, "page.waitForTimeout", undefined, ok)
        /\ IF ok
           THEN LoginReturn(r, Log(logs[r], 209, {}))
           ELSE LoginThrow(r, ErrorOf("page.waitForTimeout"))
    /\ UNCHANGED <<env, probe, page>>

\* ------------------------------------------------ genericLogin, lines 213-226
\* await page.goto(credentials.loginUrl, {waitUntil: 'networkidle', ...})
GlGoto(r) ==
    LoginStep(r, "gl_goto", "page.goto", handler[r].credentials.loginUrl, "gl_fillUser")

GlFillUser(r) ==
    LoginStep(r, "gl_fillUser", "page.fill", handler[r].credentials.username, "gl_fillPass")

GlFillPass(r) ==
    LoginStep(r, "gl_fillPass", "page.fill", handler[r].credentials.password, "gl_submit")

GlSubmit(r) == LoginStep(r, "gl_submit", "page.click", undefined, "gl_wait")

\* await page.waitForTimeout(3000); return
GlWait(r) ==
    /\ handler[r].pc = "gl_wait"
    /\ \E ok \in BOOLEAN :
        /\ Settle(r, "page.waitForTimeout", undefined, ok)
        /\ IF ok
           THEN LoginReturn(r, logs[r])
           ELSE LoginThrow(r, ErrorOf("page.waitForTimeout"))
    /\ UNCHANGED <<env, probe, page>>

\* --------------------------------------------- POST /api/scrape, lines 85-150
\* a switch whose Lowe's label does not match the classifier's string, so
\* that Lowe's pages fall through to the default
ScraperOfLowesTypo(supplierName) ==
    CASE supplierName = Richelieu -> "scrapeRichelieu"
      [] supplierName = HomeDepot -> "scrapeHomeDepot"
      [] supplierName = Amazon    -> "scrapeAmazon"
      [] OTHER                    -> "scrapeGeneric"

\* the extraction strategy the switch on supplierName dispatches to
ScraperOf(supplierName) ==
    CASE supplierName = Richelieu -> "scrapeRichelieu"
      [] supplierName = HomeDepot -> "scrapeHomeDepot"
      [] supplierName = Lowes     -> "scrapeLowes"
      [] supplierName = Amazon    -> "scrapeAmazon"
      [] OTHER                    -> "scrapeGeneric"

\* the first console.log of each strategy
ScraperLogLine(scraper) ==
    CASE scraper = "scrapeRichelieu" -> 230
      [] scraper = "scrapeHomeDepot" -> 330
      [] scraper = "scrapeLowes"     -> 361
      [] scraper = "scrapeAmazon"    -> 392
      [] OTHER                       -> 425

\* a handler that starts the extraction right after the navigation, without
\* the settle wait
GotoSkipsSettle(r) ==
    /\ handler[r].pc = "goto"
    /\ \E ok \in BOOLEAN :
        /\ Settle(r, "page.goto", handler[r].url, ok)
        /\ IF ok
           THEN /\ handler' = [handler EXCEPT ![r].supplierName = detectSupplier(handler[r].url),
                                              ![r].pc = "evaluate"]
                /\ UNCHANGED <<logs, res>>
           ELSE Catch(r, ErrorOf("page.goto"))
    /\ UNCHANGED <<env, probe, page>>

\* await page.goto(url, {waitUntil: 'domcontentloaded', timeout: 30000})
Goto(r) ==
    /\ handler[r].pc = "goto"
    /\ \E ok \in BOOLEAN :
        /\ Settle(r, "page.goto", handler[r].url, ok)
        /\ IF ok
           THEN /\ handler' = [handler EXCEPT ![r].pc = "waitForTimeout"]
                /\ UNCHANGED <<logs, res>>
           ELSE Catch(r, ErrorOf("page.goto"))
    /\ UNCHANGED <<env, probe, page>>

\* await page.waitForTimeout(3000), then detectSupplier and the dispatch,
\* up to the page.evaluate of the strategy
WaitForTimeout(r) ==
    /\ handler[r].pc = "waitForTimeout"
    /\ \E ok \in BOOLEAN :
        /\ Settle(r, "page.waitForTimeout", undefined, ok)
        /\ IF ok
           THEN LET supplierName == detectSupplier(handler[r].url)
                    scraper == ScraperOf(supplierName)
                IN  /\ handler' = [handler EXCEPT ![r].supplierName = supplierName,
                                                  ![r].pc = "evaluate"]
                    /\ logs' = [logs EXCEPT ![r] =
                                  Log(Log(@, 97, {supplierName}), ScraperLogLine(scraper), {})]
                    /\ UNCHANGED res
           ELSE Catch(r, ErrorOf("page.waitForTimeout"))
    /\ UNCHANGED <<env, probe, page>>

\* await page.evaluate(...) inside the strategy, its return, and the start
\* of the screenshot
Evaluate(r) ==
    /\ handler[r].pc = "evaluate"
    /\ \E ok \in BOOLEAN :
        LET scraper == ScraperOf(handler[r].supplierName) IN
        /\ Settle(r, "page.evaluate", Str(<<scraper>>), ok)
        /\ IF ok
           THEN /\ handler' = [handler EXCEPT
                                 ![r].productData = [scraper |-> scraper,
                                                       url     |-> host[Target(r)].location],
                                 ![r].pc = "screenshot"]
                /\ logs' = [logs EXCEPT ![r] =
                              IF scraper = "scrapeRichelieu" THEN Log(@, 312, {}) ELSE @]
                /\ UNCHANGED res
           ELSE Catch(r, ErrorOf("page.evaluate"))
    /\ UNCHANGED <<env, probe, page>>

\* a capture made best-effort: its fault is swallowed and the handler goes on
ScreenshotBestEffort(r) ==
    /\ handler[r].pc = "screenshot"
    /\ \E ok \in BOOLEAN :
        /\ Settle(r, "page.screenshot", undefined, ok)
        /\ handler' = [handler EXCEPT ![r].screenshot = IF ok THEN Str(<<"jpeg">>) ELSE @,
                                      ![r].pc = "close"]
        /\ UNCHANGED <<logs, res>>
    /\ UNCHANGED <<env, probe, page>>

\* a handler that sends the success response before closing the browser
ScreenshotRespondsFirst(r) ==
    /\ handler[r].pc = "screenshot"
    /\ \E ok \in BOOLEAN :
        /\ Settle(r, "page.screenshot", undefined, ok)
        /\ IF ok
           THEN /\ handler' = [handler EXCEPT ![r].screenshot = Str(<<"jpeg">>),
                                              ![r].pc = "close"]
                /\ Respond(r, 200, [success      |-> TRUE,
                                    data         |-> handler[r].productData,
                                    screenshot   |-> Str(<<"jpeg">>),
                                    supplierName |-> handler[r].supplierName])
                /\ UNCHANGED logs
           ELSE Catch(r, ErrorOf("page.screenshot"))
    /\ UNCHANGED <<env, probe, page>>

\* await page.screenshot(...), then the call of browser.close
Screenshot(r) ==
    /\ handler[r].pc = "screenshot"
    /\ \E ok \in BOOLEAN :
        /\ Settle(r, "page.screenshot", undefined, ok)
        /\ IF ok
           THEN /\ handler' = [handler EXCEPT ![r].screenshot = Str(<<"jpeg">>),
                                              ![r].pc = "close"]
                /\ UNCHANGED <<logs, res>>
           ELSE Catch(r, ErrorOf("page.screenshot"))
    /\ UNCHANGED <<env, probe, page>>

\* await browser.close() on line 124, then 'Scrape successful' and res.json;
\* a close that rejects may or may not have ended the session
Close(r) ==
    /\ handler[r].pc = "close"
    /\ \E ok \in BOOLEAN, after \in {host[Target(r)].session, "closed"} :
        /\ ok => after = "closed"
        /\ host' = [host EXCEPT ![r] = Did(@, "close", "browser.close", undefined, ok),
                                ![Target(r)].session = after]
        /\ IF ok
           THEN /\ handler' = [handler EXCEPT ![r].pc = "done"]
                /\ logs' = [logs EXCEPT ![r] = Log(@, 126, {})]
                /\ Respond(r, 200, [success      |-> TRUE,
                                    data         |-> handler[r].productData,
                                    screenshot   |-> handler[r].screenshot,
                                    supplierName |-> handler[r].supplierName])
           ELSE Catch(r, ErrorOf("browser.close"))
    /\ UNCHANGED <<env, probe, page>>

\* await browser.close() on line 143 inside the catch block, then the 500
\* response; when this close rejects, the handler's promise rejects and no
\* response is sent
CatchClose(r) ==
    /\ handler[r].pc = "catch_close"
    /\ \E ok \in BOOLEAN, after \in {host[Target(r)].session, "closed"} :
        /\ ok => after = "closed"
        /\ host' = [host EXCEPT ![r] = Did(@, "catch_close", "browser.close", undefined, ok),
                                ![Target(r)].session = after]
        /\ IF ok
           THEN /\ handler' = [handler EXCEPT ![r].pc = "done"]
                /\ Respond(r, 500, [error   |-> "Failed to scrape product",
                                    details |-> handler[r].error])
           ELSE /\ handler' = [handler EXCEPT ![r].pc = "rejected"]
                /\ UNCHANGED res
        /\ UNCHANGED logs
    /\ UNCHANGED <<env, probe, page>>

\* the invocation is over: its locals, its session handle and its response
\* object are dropped, and the slot serves the next request
Finish(r) ==
    /\ handler[r].pc \in {"done", "rejected"}
    /\ handler' = [handler EXCEPT ![r] = IdleHandler]
    /\ host' = [host EXCEPT ![r] = IdleHost]
    /\ logs' = [logs EXCEPT ![r] = << >>]
    /\ res' = [res EXCEPT ![r] = << >>]
    /\ UNCHANGED <<env, probe, page>>

\* no other invocation is in progress: the server handles one request at a time
Alone(r) == \A q \in Reqs \ {r} : handler[q].pc = "idle"

Next ==
    \/ \E r \in Reqs : Alone(r) /\ Receive(r)
    \/ \E r \in Reqs : Alone(r) /\ Launch(r)
    \/ \E r \in Reqs : Alone(r) /\ NewContext(r)
    \/ \E r \in Reqs : Alone(r) /\ NewPage(r)
    \/ \E r \in Reqs : Alone(r) /\ RlGoto(r)
    \/ \E r \in Reqs : Alone(r) /\ RlSettle(r)
    \/ \E r \in Reqs : Alone(r) /\ RlQuery(r)
    \/ \E r \in Reqs : Alone(r) /\ RlClick(r)
    \/ \E r \in Reqs : Alone(r) /\ RlClickWait(r)
    \/ \E r \in Reqs : Alone(r) /\ RlWaitForSelector(r)
    \/ \E r \in Reqs : Alone(r) /\ RlFillUser(r)
    \/ \E r \in Reqs : Alone(r) /\ RlFillPass(r)
    \/ \E r \in Reqs : Alone(r) /\ RlSubmit(r)
    \/ \E r \in Reqs : Alone(r) /\ RlFinalWait(r)
    \/ \E r \in Reqs : Alone(r) /\ GlGoto(r)
    \/ \E r \in Reqs : Alone(r) /\ GlFillUser(r)
    \/ \E r \in Reqs : Alone(r) /\ GlFillPass(r)
    \/ \E r \in Reqs : Alone(r) /\ GlSubmit(r)
    \/ \E r \in Reqs : Alone(r) /\ GlWait(r)
    \/ \E r \in Reqs : Alone(r) /\ Goto(r)
    \/ \E r \in Reqs : Alone(r) /\ WaitForTimeout(r)
    \/ \E r \in Reqs : Alone(r) /\ Evaluate(r)
    \/ \E r \in Reqs : Alone(r) /\ Screenshot(r)
    \/ \E r \in Reqs : Alone(r) /\ Close(r)
    \/ \E r \in Reqs : Alone(r) /\ CatchClose(r)
    \/ \E r \in Reqs : Alone(r) /\ Finish(r)

Spec == Init /\ [][Next]_vars

\* ------------------------------------------- requests served concurrently
\* the urls of the requests that overlap
ConcUrls == {LowesUrl, AmazonUrl}

\* an authorized request without credentials for one of these urls
ReceiveConc(r) ==
    \E url \in ConcUrls : ReceiveOf(r, url, undefined, Bearer(expectedToken))

\* the event loop resumes any suspended handler, in any order
NextConc ==
    \/ \E r \in Reqs : ReceiveConc(r)
    \/ \E r \in Reqs : Launch(r)
    \/ \E r \in Reqs : NewContext(r)
    \/ \E r \in Reqs : NewPage(r)
    \/ \E r \in Reqs : Goto(r)
    \/ \E r \in Reqs : WaitForTimeout(r)
    \/ \E r \in Reqs : Evaluate(r)
    \/ \E r \in Reqs : Screenshot(r)
    \/ \E r \in Reqs : Close(r)
    \/ \E r \in Reqs : CatchClose(r)
    \/ \E r \in Reqs : Finish(r)

SpecConc == Init /\ [][NextConc]_vars

\* ---------------------------------------------- detectSupplier on its own
\* a caller is about to call detectSupplier on any URL of the bounded set
InitDetect ==
    /\ env \in EnvSecrets
    /\ handler = [r \in Reqs |-> IdleHandler]
    /\ host = [r \in Reqs |-> IdleHost]
    /\ logs = [r \in Reqs |-> << >>]
    /\ res = [r \in Reqs |-> << >>]
    /\ probe \in [url : AllUrls, supplierName : {undefined}]
    /\ page = NoPage

\* the direct call detectSupplier(probe.url) returns
CallDetectSupplier ==
    /\ probe.supplierName = undefined
    /\ probe' = [probe EXCEPT !.supplierName = detectSupplier(probe.url)]
    /\ UNCHANGED <<env, handler, host, logs, res, page>>

\* after a call, the caller prepares another one with one of the request URLs
CallAgain ==
    /\ probe.supplierName # undefined
    /\ \E url \in Urls \ {undefined} : probe' = [url |-> url, supplierName |-> undefined]
    /\ UNCHANGED <<env, handler, host, logs, res, page>>

NextDetect == CallDetectSupplier \/ CallAgain

SpecDetect == InitDetect /\ [][NextDetect]_vars

\* ------------------------------------- the extraction strategies, lines 229-453
\* A loaded document is the sequence of its elements in document order. An
\* element has a tag, an id ("" for none), class names, attributes, the
\* ancestors it lies inside, its textContent and its src (images only).
\* A class name is a sequence of atoms, so that [class*="price"] can look
\* inside it; a text is a string whose atom " " is white space.
MaxDomLen == 2          \* elements of a document

Lowest(S) == CHOOSE x \in S : \A y \in S : x <= y
Highest(S) == CHOOSE x \in S : \A y \in S : x >= y

\* String.prototype.trim
trim(s) ==
    LET solid == {i \in DOMAIN s.str : s.str[i] # " "}
    IN  IF solid = {} THEN EmptyString
        ELSE Str(SubSeq(s.str, Lowest(solid), Highest(solid)))

\* String.prototype.substring(from, to), counted in atoms
substring(s, from, to) ==
    Str(SubSeq(s.str, from + 1, IF to < Len(s.str) THEN to ELSE Len(s.str)))

\* the length kept of an HTML snippet
SnippetLen == 500

Attr(name, value) == [name |-> name, value |-> value]
NoAttr == Attr("", "")

\* a simple selector: tag ("" for any), #id ("" for any), .classes,
\* [name="value"], and the atom of a [class*="atom"] test ("" for none)
Simple(tag, id, classes, attr, has) ==
    [tag |-> tag, id |-> id, classes |-> classes, attr |-> attr, has |-> has]

ByTag(tag) == Simple(tag, "", {}, NoAttr, "")
ById(id) == Simple("", id, {}, NoAttr, "")
ByClass(c) == Simple("", "", {c}, NoAttr, "")
ByClasses(cs) == Simple("", "", cs, NoAttr, "")
ByTagClass(tag, c) == Simple(tag, "", {c}, NoAttr, "")
ByAttr(name, value) == Simple("", "", {}, Attr(name, value), "")
ByTagAttr(tag, name, value) == Simple(tag, "", {}, Attr(name, value), "")
ClassHas(atom) == Simple("", "", {}, NoAttr, atom)

\* a selector of a list: a simple selector, or one under an ancestor
\* (descendant combinator)
Sel(s) == [anc |-> << >>, self |-> s]
In(a, s) == [anc |-> <<a>>, self |-> s]

\* an element (or an ancestor of one) matches a simple selector
MatchesSimple(e, s) ==
    /\ s.tag = "" \/ e.tag = s.tag
    /\ s.id = "" \/ e.id = s.id
    /\ s.classes \subseteq e.classes
    /\ s.attr = NoAttr \/ s.attr \in e.attrs
    /\ s.has = "" \/ \E c \in e.classes : \E i \in DOMAIN c : c[i] = s.has

MatchesSel(e, sel) ==
    /\ MatchesSimple(e, sel.self)
    /\ \A k \in DOMAIN sel.anc : \E a \in e.inside : MatchesSimple(a, sel.anc[k])

MatchesList(e, list) == \E k \in DOMAIN list : MatchesSel(e, list[k])

\* document.querySelector(list): the first element, in document order,
\* that matches any selector of the list, or null
querySelector(dom, list) ==
    LET hits == {i \in DOMAIN dom : MatchesList(dom[i], list)}
    IN  IF hits = {} THEN null ELSE dom[Lowest(hits)]

\* document.querySelectorAll(list): the matching elements in document order
querySelectorAll(dom, list) == SelectSeq(dom, LAMBDA e : MatchesList(e, list))

\* the value a property read on null would leave in the record if the
\* guard `element ?` were missing (the TypeError the evaluate would raise)
TypeError == Str(<<"TypeError">>)

\* a text lookup that reads textContent without testing the element
getTextContentUnguarded(dom, list) ==
    LET element == querySelector(dom, list)
    IN  IF element = null THEN TypeError ELSE trim(element.text)

\* getTextContent: element ? element.textContent.trim() : null
getTextContent(dom, list) ==
    LET element == querySelector(dom, list)
    IN  IF element # null THEN trim(element.text) ELSE null

\* element.outerHTML
outerHTML(e) == Str(<<"<", e.tag, ">">> \o e.text.str \o <<"</", e.tag, ">">>)

\* getElementHTML: element ? element.outerHTML : null
getElementHTML(dom, list) ==
    LET element == querySelector(dom, list)
    IN  IF element # null THEN outerHTML(element) ELSE null

\* imageElement ? imageElement.src : null
imageSrc(dom, list) ==
    LET imageElement == querySelector(dom, list)
    IN  IF imageElement # null THEN imageElement.src ELSE null

\* Array.prototype.join(' > ') over the trimmed texts
RECURSIVE joinTexts(_)
joinTexts(els) ==
    IF els = << >> THEN << >>
    ELSE IF Len(els) = 1 THEN trim(els[1].text).str
    ELSE trim(els[1].text).str \o <<" > ">> \o joinTexts(Tail(els))

\* class names
K(c) == <<c>>
PmsPriceClass == <<"pms-", "Price">>
PmsPriceBlockClass == <<"pms-", "Price", "Block">>
ProductPriceClass == <<"product-", "price">>
PriceClass == <<"price">>
ListPriceClass == <<"list-", "price">>

\* scrapeRichelieu's selector lists
RichelieuName ==
    <<Sel(ByTagClass("h1", K("product-name"))), Sel(ByTagAttr("h1", "itemprop", "name")),
      In(ByClass(K("product-title")), ByTag("h1")), Sel(ByTag("h1"))>>
RichelieuSku ==
    <<Sel(ByClass(K("pms-PartNumber"))), Sel(ByAttr("itemprop", "sku")),
      Sel(ByClass(K("product-sku"))), Sel(ByClass(K("product-code"))),
      Sel(ByClass(K("sku-number")))>>
RichelieuPrice ==
    <<Sel(ByClass(PmsPriceClass)), Sel(ByAttr("itemprop", "price")),
      Sel(ByClass(ProductPriceClass)),
      In(ByClass(<<"pms-", "Price", "Block_Main">>),
         ByClass(<<"pms-", "Price", "Block_BreaksPrice">>))>>
RichelieuPublicPrice ==
    <<Sel(ByClass(<<"your-", "price">>)), Sel(ByClass(<<"price", "-now">>)),
      Sel(ByClass(PriceClass)), Sel(ClassHas("price"))>>
RichelieuPriceBlockItems == <<In(ByClass(PmsPriceBlockClass), ByTag("li"))>>
RichelieuMsrp ==
    <<Sel(ByClass(ListPriceClass)), Sel(ByClass(<<"price", "-was">>)),
      Sel(ByClass(<<"msrp-", "price">>)), Sel(ByClass(<<"retail-", "price">>))>>
RichelieuDescription ==
    <<Sel(ByClass(K("product-description"))), Sel(ByClass(K("product-details"))),
      Sel(ByAttr("itemprop", "description"))>>
RichelieuBrand ==
    <<Sel(ByClass(K("product-brand"))), Sel(ByClass(K("brand-name"))),
      Sel(ByAttr("itemprop", "brand"))>>
RichelieuImage ==
    <<In(ByClass(K("product-image")), ByTag("img")), In(ByClass(K("main-image")), ByTag("img")),
      Sel(ByTagAttr("img", "itemprop", "image"))>>
RichelieuCategory ==
    <<In(ByClass(K("breadcrumb")), ByTag("a")),
      In(ByTagClass("nav", K("breadcrumb")), ByTag("a"))>>
RichelieuPriceHTML ==
    <<Sel(ByClass(PmsPriceClass)), Sel(ByAttr("itemprop", "price")),
      Sel(ByClass(ProductPriceClass)), Sel(ByClass(<<"your-", "price">>)),
      Sel(ByClass(<<"price", "-now">>))>>
RichelieuSkuHTML ==
    <<Sel(ByClass(K("pms-PartNumber"))), Sel(ByAttr("itemprop", "sku")),
      Sel(ByClass(K("product-sku")))>>

NoPriceElement == Str(<<"No price element found">>)
NoSkuElement == Str(<<"No SKU element found">>)

\* the MSRP scan of the price-block items: the first item whose lowered
\* text names msrp, list or retail
RichelieuMsrpScan(dom) ==
    LET items == querySelectorAll(dom, RichelieuPriceBlockItems)
        named == {i \in DOMAIN items :
                     \E word \in {"msrp", "list", "retail"} :
                         includes(toLowerCase(items[i].text), Str(<<word>>))}
    IN  IF named = {} THEN null ELSE trim(items[Lowest(named)].text)

\* the function scrapeRichelieu passes to page.evaluate
scrapeRichelieu(dom, location) ==
    LET tier1 == getTextContent(dom, RichelieuPrice)
        scan == RichelieuMsrpScan(dom)
        priceHTML == getElementHTML(dom, RichelieuPriceHTML)
        skuHTML == getElementHTML(dom, RichelieuSkuHTML)
    IN  [name         |-> getTextContent(dom, RichelieuName),
         sku          |-> getTextContent(dom, RichelieuSku),
         price        |-> IF ~Truthy(tier1) THEN getTextContent(dom, RichelieuPublicPrice)
                          ELSE tier1,
         msrp         |-> IF ~Truthy(scan) THEN getTextContent(dom, RichelieuMsrp) ELSE scan,
         description  |-> getTextContent(dom, RichelieuDescription),
         brand        |-> getTextContent(dom, RichelieuBrand),
         imageUrl     |-> imageSrc(dom, RichelieuImage),
         categoryPath |-> Str(joinTexts(querySelectorAll(dom, RichelieuCategory))),
         url          |-> location,
         debug        |-> [priceHTML |-> IF Truthy(priceHTML)
                                         THEN substring(priceHTML, 0, SnippetLen)
                                         ELSE NoPriceElement,
                           skuHTML   |-> IF Truthy(skuHTML)
                                         THEN substring(skuHTML, 0, SnippetLen)
                                         ELSE NoSkuElement]]

\* scrapeHomeDepot's selector lists
HomeDepotName ==
    <<Sel(ByTagClass("h1", K("product-details__title"))),
      Sel(ByTagAttr("h1", "data-testid", "product-title"))>>
HomeDepotSku ==
    <<Sel(ByClass(K("product-info-bar__detail--sku"))), Sel(ByAttr("data-testid", "product-sku"))>>
HomeDepotPrice ==
    <<Sel(ByAttr("data-testid", "product-price")), Sel(ByClass(<<"price", "__dollars">>))>>
HomeDepotBrand ==
    <<Sel(ByClass(K("product-details__brand"))), Sel(ByAttr("data-testid", "product-brand"))>>
HomeDepotImage ==
    <<In(ByClass(K("mediagallery__mainimage")), ByTag("img")),
      In(ByAttr("data-testid", "product-image"), ByTag("img"))>>

scrapeHomeDepot(dom, location) ==
    [name     |-> getTextContent(dom, HomeDepotName),
     sku      |-> getTextContent(dom, HomeDepotSku),
     price    |-> getTextContent(dom, HomeDepotPrice),
     brand    |-> getTextContent(dom, HomeDepotBrand),
     imageUrl |-> imageSrc(dom, HomeDepotImage),
     url      |-> location]

\* scrapeLowes's selector lists
LowesName == <<Sel(ByTagClass("h1", K("pdp-header"))), Sel(ByTagAttr("h1", "itemprop", "name"))>>
LowesSku == <<Sel(ByClass(K("product-code"))), Sel(ByAttr("itemprop", "productID"))>>
LowesPrice ==
    <<Sel(ByClass(<<"item-", "price">>)), Sel(ByClass(<<"price", "-format__main-", "price">>))>>
LowesBrand == <<Sel(ByClass(K("pdp-brand"))), Sel(ByAttr("itemprop", "brand"))>>
LowesImage ==
    <<In(ByClass(K("main-image")), ByTag("img")), In(ByClass(K("pdp-image")), ByTag("img"))>>

scrapeLowes(dom, location) ==
    [name     |-> getTextContent(dom, LowesName),
     sku      |-> getTextContent(dom, LowesSku),
     price    |-> getTextContent(dom, LowesPrice),
     brand    |-> getTextContent(dom, LowesBrand),
     imageUrl |-> imageSrc(dom, LowesImage),
     url      |-> location]

\* scrapeAmazon's selector lists
AmazonName == <<Sel(ById("productTitle")), Sel(ByTagClass("h1", K("a-size-large")))>>
AmazonPrice ==
    <<Sel(ByClass(<<"a-", "price", "-whole">>)),
      Sel(ByClasses({<<"a-", "price">>, <<"a-text-", "price">>, K("a-size-medium")}))>>
AmazonBrand ==
    <<Sel(ById("bylineInfo")), In(ByClass(K("po-brand")), ByClass(K("po-break-word")))>>
AmazonImage == <<Sel(ById("landingImage")), In(ById("imgTagWrapperId"), ByTag("img"))>>

\* an Amazon strategy that looks the SKU up like the generic one
AmazonSkuFromPage(dom) ==
    getTextContent(dom, <<Sel(ByClass(K("sku"))), Sel(ByAttr("itemprop", "sku"))>>)

\* const sku = null
AmazonSku(dom) == null

scrapeAmazon(dom, location) ==
    [name     |-> getTextContent(dom, AmazonName),
     sku      |-> AmazonSku(dom),
     price    |-> getTextContent(dom, AmazonPrice),
     brand    |-> getTextContent(dom, AmazonBrand),
     imageUrl |-> imageSrc(dom, AmazonImage),
     url      |-> location]

\* scrapeGeneric's selector lists
GenericName ==
    <<Sel(ByTag("h1")), Sel(ByClass(K("product-title"))), Sel(ByClass(K("product-name"))),
      Sel(ByAttr("itemprop", "name"))>>
GenericSku ==
    <<Sel(ByClass(K("sku"))), Sel(ByClass(K("product-code"))), Sel(ByClass(K("item-number"))),
      Sel(ByAttr("itemprop", "sku"))>>
GenericPrice ==
    <<Sel(ByClass(PriceClass)), Sel(ByClass(ProductPriceClass)),
      Sel(ByClass(<<"sale-", "price">>)), Sel(ByAttr("itemprop", "price"))>>
GenericDescription ==
    <<Sel(ByClass(K("description"))), Sel(ByClass(K("product-description"))),
      Sel(ByAttr("itemprop", "description"))>>
GenericImage ==
    <<Sel(ByTagClass("img", K("product-image"))), Sel(ByTagClass("img", K("main-image"))),
      Sel(ByAttr("itemprop", "image"))>>

scrapeGeneric(dom, location) ==
    [name        |-> getTextContent(dom, GenericName),
     sku         |-> getTextContent(dom, GenericSku),
     price       |-> getTextContent(dom, GenericPrice),
     description |-> getTextContent(dom, GenericDescription),
     imageUrl    |-> imageSrc(dom, GenericImage),
     url         |-> location]

\* the elements a document is made of
El(tag, id, classes, attrs, inside, text, src) ==
    [tag |-> tag, id |-> id, classes |-> classes, attrs |-> attrs, inside |-> inside,
     text |-> Str(text), src |-> src]

\* an ancestor: <tag class="c">
Under(tag, c) == [tag |-> tag, id |-> "", classes |-> {c}, attrs |-> {}]

Palette ==
    {El("span", "", {PmsPriceClass}, {}, {}, <<"$10">>, undefined),
     El("span", "", {PmsPriceClass}, {}, {}, <<" ">>, undefined),
     El("span", "", {ProductPriceClass}, {}, {}, <<" ", "$20", " ">>, undefined),
     El("div", "", {PriceClass}, {}, {}, <<"$30">>, undefined),
     El("span", "", {K("pms-PartNumber")}, {}, {}, <<"A1">>, undefined),
     El("span", "", {K("product-code")}, {}, {}, <<"B2">>, undefined),
     El("h1", "", {}, {}, {}, <<"Widget">>, undefined),
     El("li", "", {}, {}, {Under("div", PmsPriceBlockClass)}, <<"MSRP", " ", "$40">>, undefined),
     El("li", "", {}, {}, {Under("div", PmsPriceBlockClass)}, <<"Qty 5">>, undefined),
     El("span", "", {ListPriceClass}, {}, {}, <<"$50">>, undefined),
     El("img", "", {}, {}, {Under("div", K("main-image"))}, << >>, Str(<<"a.jpg">>)),
     El("a", "", {}, {}, {Under("nav", K("breadcrumb"))}, <<" ", "Tools">>, undefined),
     El("span", "productTitle", {}, {}, {}, <<"Drill">>, undefined),
     El("span", "", {K("sku")}, {}, {}, <<"S9">>, undefined),
     El("span", "", {}, {Attr("data-testid", "product-price")}, {}, <<"$60">>, undefined),
     El("div", "", {K("other")}, {}, {}, <<"hello">>, undefined),
     El("p", "", {}, {}, {}, <<"text">>, undefined)}

\* every document of at most MaxDomLen elements
Doms == UNION {[1..n -> Palette] : n \in 0..MaxDomLen}

\* a page is loaded and no strategy has run on it yet
InitExtract ==
    /\ env \in EnvSecrets
    /\ handler = [r \in Reqs |-> IdleHandler]
    /\ host = [r \in Reqs |-> IdleHost]
    /\ logs = [r \in Reqs |-> << >>]
    /\ res = [r \in Reqs |-> << >>]
    /\ probe = NoProbe
    /\ page \in [dom : Doms, location : {OtherUrl}, scraper : {""}, data : {undefined},
                 log : {<< >>}]

\* a strategy runs on the page and returns its record
Scraped(scraper, data, lg) ==
    /\ page.scraper = ""
    /\ page' = [page EXCEPT !.scraper = scraper, !.data = data, !.log = lg]
    /\ UNCHANGED <<env, handler, host, logs, res, probe>>

\* scrapeRichelieu: the evaluate, the summary line, and the debug lines
\* when the price or the sku is missing
ScrapeRichelieu ==
    LET data == scrapeRichelieu(page.dom, page.location)
        lg312 == Log(Log(page.log, 230, {}), 312, {data.name, data.sku, data.price})
    IN  Scraped("scrapeRichelieu", data,
                IF ~Truthy(data.price) \/ ~Truthy(data.sku)
                THEN Log(lg312, 320, {data.debug.priceHTML, data.debug.skuHTML})
                ELSE lg312)

ScrapeHomeDepot ==
    Scraped("scrapeHomeDepot", scrapeHomeDepot(page.dom, page.location), Log(page.log, 330, {}))

ScrapeLowes ==
    Scraped("scrapeLowes", scrapeLowes(page.dom, page.location), Log(page.log, 361, {}))

ScrapeAmazon ==
    Scraped("scrapeAmazon", scrapeAmazon(page.dom, page.location), Log(page.log, 392, {}))

ScrapeGeneric ==
    Scraped("scrapeGeneric", scrapeGeneric(page.dom, page.location), Log(page.log, 425, {}))

NextExtract ==
    \/ ScrapeRichelieu
    \/ ScrapeHomeDepot
    \/ ScrapeLowes
    \/ ScrapeAmazon
    \/ ScrapeGeneric

SpecExtract == InitExtract /\ [][NextExtract]_vars

\* =================================================================
\* Properties
\* =================================================================
Ops(r) == host[r].ops

Responded(r) == Len(res[r]) > 0

Status(r) == res[r][1].status

Terminal(r) == handler[r].pc \in {"done", "rejected"}

\* the request passed the url and the token check
ReachedOrchestration(r) ==
    /\ handler[r].pc # "idle"
    /\ handler[r].url \notin {undefined, EmptyString}
    /\ handler[r].authHeader = Bearer(IF env = undefined THEN DefaultSecret ELSE env)

\* the stage of the orchestrator a call site belongs to
StageOf(at) ==
    CASE at \in {"launch", "newContext", "newPage"} -> "session"
      [] at \in {"rl_goto", "rl_settle", "rl_query", "rl_click", "rl_clickWait",
                 "rl_waitForSelector", "rl_fillUser", "rl_fillPass", "rl_submit",
                 "rl_finalWait", "gl_goto", "gl_fillUser", "gl_fillPass",
                 "gl_submit", "gl_wait"} -> "login"
      [] at = "goto" -> "navigate"
      [] at = "waitForTimeout" -> "render"
      [] at = "evaluate" -> "extract"
      [] at = "screenshot" -> "capture"
      [] at \in {"close", "catch_close"} -> "release"

\* the calls of request r made from the call sites in ats, and those that faulted
Calls(r, ats) == {i \in DOMAIN Ops(r) : Ops(r)[i].at \in ats}
Faults(r) == {i \in DOMAIN Ops(r) : ~Ops(r)[i].ok}
FaultedIn(r, stages) == \E i \in Faults(r) : StageOf(Ops(r)[i].at) \in stages

\* the call sites of the login flows whose fault leaves the flow
RaisingLoginSites ==
    {"rl_goto", "rl_settle", "rl_fillUser", "rl_fillPass", "rl_submit", "rl_finalWait",
     "gl_goto", "gl_fillUser", "gl_fillPass", "gl_submit", "gl_wait"}

LoginRaised(r) == \E i \in Faults(r) : Ops(r)[i].at \in RaisingLoginSites

\* ------------------------------------------------------------------ C1
\* C1 (as stated): for every request that reaches orchestration and every
\* outcome, exactly one browser session has been created and exactly one
\* released by the time the outcome is returned.
C1_AsStated ==
    \A r \in Reqs :
        (ReachedOrchestration(r) /\ Responded(r)) =>
            /\ Cardinality({i \in Calls(r, {"launch"}) : Ops(r)[i].ok}) = 1
            /\ host[r].session = "closed"

\* C1 (amended): for every request that reaches orchestration, the browser
\* launch is attempted exactly once; when an outcome is returned no session
\* is open: either the launch itself faulted, no session exists and the
\* outcome is the launch Failure, or exactly one session was created and a
\* browser.close that resolved has released it; and on every exit of the
\* handler in which no browser.close faulted the created session is released.
C1_NoSessionLeak ==
    \A r \in Reqs :
        /\ (ReachedOrchestration(r) /\ Responded(r)) =>
              /\ Cardinality(Calls(r, {"launch"})) = 1
              /\ host[r].session # "open"
              /\ host[r].session = "none" <=> (\E i \in Faults(r) : Ops(r)[i].at = "launch")
              /\ host[r].session = "none" =>
                    /\ Status(r) = 500
                    /\ res[r][1].body.details = ErrorOf("chromium.launch")
              /\ host[r].session = "closed" =>
                    \E i \in Calls(r, {"close", "catch_close"}) : Ops(r)[i].ok
        /\ (Terminal(r) /\ ~FaultedIn(r, {"release"})) => host[r].session # "open"

\* an extraction fault was answered with a Failure after the session was closed
C1_Witness ==
    \E r \in Reqs :
        /\ Responded(r) /\ Status(r) = 500
        /\ handler[r].error = ErrorOf("page.evaluate")
        /\ host[r].session = "closed"

\* ------------------------------------------------------------------ C2
\* C2: a response is sent only when the request's session is not open, and
\* when a browser was launched the call settled last before the response is
\* a browser.close that resolved.
C2_CloseBeforeResponse ==
    [][\A r \in Reqs :
          Len(res'[r]) > Len(res[r]) =>
              /\ host'[r].session # "open"
              /\ handler[r].browser # undefined =>
                    /\ Ops(r) # Ops(r)'
                    /\ host'[r].ops[Len(host'[r].ops)].op = "browser.close"
                    /\ host'[r].ops[Len(host'[r].ops)].ok]_vars

\* a navigation fault was answered after the session had been closed
C2_Witness ==
    \E r \in Reqs :
        /\ Responded(r)
        /\ handler[r].error = ErrorOf("page.goto")
        /\ host[r].session = "closed"
        /\ Ops(r)[Len(Ops(r))].op = "browser.close"

\* ------------------------------------------------------------------ C3
\* C3: a fault of a login-flow call never enters the outer catch: right
\* after it the handler awaits the next login call or the navigation to
\* targetUrl; and for every answered request the kind of the outcome is
\* Success exactly when no call outside the login flow faulted, whether or
\* not the login flow raised, the navigation to targetUrl having been made.
C3_LoginFaultAbsorbed ==
    \A r \in Reqs :
        /\ (Ops(r) # << >> /\ ~Ops(r)[Len(Ops(r))].ok
              /\ StageOf(Ops(r)[Len(Ops(r))].at) = "login") =>
              /\ handler[r].pc \in {"goto", "rl_waitForSelector", "rl_fillUser"}
              /\ handler[r].error = undefined
              /\ Ops(r)[Len(Ops(r))].at \in RaisingLoginSites => handler[r].pc = "goto"
        /\ (ReachedOrchestration(r) /\ Responded(r)) =>
              /\ Status(r) = 200 <=>
                    ~FaultedIn(r, {"session", "navigate", "render", "extract",
                                   "capture", "release"})
              /\ LoginRaised(r) =>
                    \E i \in Calls(r, {"goto"}) : Ops(r)[i].arg = handler[r].url

\* a request whose login flow raised was answered with Success
C3_Witness ==
    \E r \in Reqs : LoginRaised(r) /\ Responded(r) /\ Status(r) = 200

\* ------------------------------------------------------------------ C4
LoginSites ==
    {"rl_goto", "rl_settle", "rl_query", "rl_click", "rl_clickWait", "rl_waitForSelector",
     "rl_fillUser", "rl_fillPass", "rl_submit", "rl_finalWait",
     "gl_goto", "gl_fillUser", "gl_fillPass", "gl_submit", "gl_wait"}

\* the request has no credentials, or an empty or missing username or password
NoUsableCredentials(r) ==
    \/ handler[r].credentials = undefined
    \/ handler[r].credentials.username \in {undefined, EmptyString}
    \/ handler[r].credentials.password \in {undefined, EmptyString}

\* C4: for a request without credentials, or with an empty or missing
\* username or password, no call of a login flow is ever made, nothing is
\* typed into the page, no login line is logged, and every navigation of
\* the page (so the first one) is the navigation to targetUrl.
C4_NoLoginWithoutCredentials ==
    \A r \in Reqs :
        (handler[r].pc # "idle" /\ NoUsableCredentials(r)) =>
            /\ Calls(r, LoginSites) = {}
            /\ handler[r].pc \notin LoginSites
            /\ \A i \in DOMAIN Ops(r) :
                  /\ Ops(r)[i].op # "page.fill"
                  /\ Ops(r)[i].op = "page.goto" =>
                        (Ops(r)[i].at = "goto" /\ Ops(r)[i].arg = handler[r].url)
            /\ \A i \in DOMAIN logs[r] : logs[r][i].line \notin {70, 78, 80, 164, 214}

\* a request with a username but an empty password navigated to targetUrl
C4_Witness ==
    \E r \in Reqs :
        /\ handler[r].credentials # undefined
        /\ handler[r].credentials.username = Username
        /\ handler[r].credentials.password = EmptyString
        /\ \E i \in DOMAIN Ops(r) : Ops(r)[i].op = "page.goto" /\ Ops(r)[i].arg = handler[r].url

\* ------------------------------------------------------------------ C5
\* C5: a request whose url is missing or the empty string is answered at
\* once with the 400 validation failure and nothing else: no browser is
\* launched, no call is made on a page, and the response has no screenshot.
C5_ValidationFailure ==
    \A r \in Reqs :
        (handler[r].pc # "idle" /\ handler[r].url \in {undefined, EmptyString}) =>
            /\ handler[r].pc = "done"
            /\ res[r] = <<[status |-> 400, body |-> [error |-> "URL is required"]]>>
            /\ host[r] = IdleHost
            /\ handler[r].browser = undefined
            /\ handler[r].screenshot = undefined

\* a request with the empty string as url was answered 400
C5_Witness ==
    \E r \in Reqs :
        /\ handler[r].pc = "done"
        /\ handler[r].url = EmptyString
        /\ Responded(r) /\ Status(r) = 400

\* ------------------------------------------------------------------ C6
\* the variants in priority order and the fragments of each
Priority == <<Richelieu, HomeDepot, Lowes, Amazon>>

FragmentsOf(variant) ==
    CASE variant = Richelieu -> {<<"richelieu", ".com">>}
      [] variant = HomeDepot -> {<<"homedepot", ".com">>, <<"homedepot", ".ca">>}
      [] variant = Lowes     -> {<<"lowes", ".com">>, <<"lowes", ".ca">>}
      [] variant = Amazon    -> {<<"amazon", ".com">>, <<"amazon", ".ca">>}

Matches(url, variant) == \E f \in FragmentsOf(variant) : includes(url, Str(f))

\* C6: detectSupplier(url) is the first variant of the priority order
\* Richelieu, HomeDepot, Lowes, Amazon one of whose fragments is a
\* substring of url, and Generic when none is, whatever the previous call.
C6_FirstMatchWins ==
    probe.supplierName # undefined =>
        /\ probe.supplierName \in {Richelieu, HomeDepot, Lowes, Amazon, Generic}
        /\ \A k \in DOMAIN Priority :
              (Matches(probe.url, Priority[k])
                 /\ \A j \in 1..(k - 1) : ~Matches(probe.url, Priority[j]))
              => probe.supplierName = Priority[k]
        /\ (\A k \in DOMAIN Priority : ~Matches(probe.url, Priority[k]))
              => probe.supplierName = Generic

\* a URL with an Amazon fragment before a Richelieu fragment was classified Richelieu
C6_Witness ==
    /\ probe.url = Str(<<"amazon", ".com", "richelieu", ".com">>)
    /\ probe.supplierName = Richelieu

\* ------------------------------------------------------------------ C7
\* C7 (as stated): when the browser.close that follows a successful
\* navigation, extraction and capture faults, the outcome the caller
\* receives is the Success outcome with the extracted record, not a Failure.
C7_AsStated ==
    \A r \in Reqs :
        (Responded(r) /\ \E i \in Faults(r) : Ops(r)[i].at = "close") =>
            /\ Status(r) = 200
            /\ res[r][1].body.data = handler[r].productData

\* ------------------------------------------------------------------ C8
\* C8 (as stated): every handled request ends with exactly one response,
\* whatever calls faulted, the session release included, and no call site
\* is executed twice.
C8_AsStated ==
    \A r \in Reqs :
        /\ Terminal(r) => Len(res[r]) = 1
        /\ \A i, j \in DOMAIN Ops(r) : Ops(r)[i].at = Ops(r)[j].at => i = j

\* ------------------------------------------------------------------ C9
\* C9 (as stated): an answered request that reached the url check with a
\* valid token got a Failure only for the validation error or a fault of
\* the target navigation, the extraction or the capture; otherwise Success.
C9_AsStated ==
    \A r \in Reqs :
        (Responded(r) /\ Status(r) # 401) =>
            (Status(r) # 200 <=>
                \/ Status(r) = 400
                \/ FaultedIn(r, {"navigate", "extract", "capture"}))

\* C9 (amended): an answered request with a valid token got a Failure only
\* for the validation error or a fault of a call outside the login flow
\* (session creation, target navigation, settle wait, extraction, capture,
\* session release); every other answered request, those in which only
\* login-flow calls faulted included, got Success.
C9_FailureOnlyOutsideLogin ==
    \A r \in Reqs :
        (Responded(r) /\ Status(r) # 401) =>
            /\ Status(r) \in {200, 400, 500}
            /\ Status(r) = 400 <=> handler[r].url \in {undefined, EmptyString}
            /\ Status(r) = 500 <=>
                 \E i \in Faults(r) : Ops(r)[i].at \notin LoginSites
            /\ Status(r) = 500 =>
                 \E i \in Faults(r) :
                    /\ Ops(r)[i].at \notin LoginSites
                    /\ res[r][1].body.details = ErrorOf(Ops(r)[i].op)

\* a request whose login flow raised and whose settle wait after the target
\* navigation then faulted was answered Failure with the settle-wait error
C9_Witness ==
    \E r \in Reqs :
        /\ Responded(r) /\ Status(r) = 500
        /\ LoginRaised(r)
        /\ \E i \in Faults(r) : Ops(r)[i].at = "waitForTimeout"
        /\ res[r][1].body.details = ErrorOf("page.waitForTimeout")

\* ----------------------------------------------------------------- C10
\* C10 (as stated): no console entry of a request contains the username or
\* the password of its credentials in full.
C10_AsStated ==
    \A r \in Reqs :
        \A i \in DOMAIN logs[r] :
            handler[r].credentials # undefined =>
                /\ Truthy(handler[r].credentials.username) =>
                      handler[r].credentials.username \notin logs[r][i].vals
                /\ Truthy(handler[r].credentials.password) =>
                      handler[r].credentials.password \notin logs[r][i].vals

\* ----------------------------------------------------------------- C13
\* the position of a stage in the order of a request
StageRank(stage) ==
    CASE stage = "session"  -> 1
      [] stage = "login"    -> 2
      [] stage = "navigate" -> 3
      [] stage = "render"   -> 4
      [] stage = "extract"  -> 5
      [] stage = "capture"  -> 6
      [] stage = "release"  -> 7

CallSites ==
    LoginSites \cup {"launch", "newContext", "newPage", "goto", "waitForTimeout",
                     "evaluate", "screenshot", "close", "catch_close"}

\* C13: the calls of a request are made in the order session, login,
\* navigate, settle wait, extract, capture, release; the call the handler
\* awaits is never of an earlier stage than a call already settled; the
\* target navigation, the settle wait, the extraction and the capture are
\* each made at most once; the classification exists exactly when the
\* settle wait has resolved; the extraction starts only after the target
\* navigation and the settle wait resolved, and the capture only after the
\* extraction returned its record.
C13_StagesInOrder ==
    \A r \in Reqs :
        /\ \A i, j \in DOMAIN Ops(r) :
              i < j => StageRank(StageOf(Ops(r)[i].at)) <= StageRank(StageOf(Ops(r)[j].at))
        /\ handler[r].pc \in CallSites =>
              \A i \in DOMAIN Ops(r) :
                  /\ StageRank(StageOf(Ops(r)[i].at)) <= StageRank(StageOf(handler[r].pc))
                  /\ Ops(r)[i].at # handler[r].pc
        /\ \A at \in {"goto", "waitForTimeout", "evaluate", "screenshot"} :
              Cardinality(Calls(r, {at})) <= 1
        /\ handler[r].supplierName # undefined <=>
              \E i \in Calls(r, {"waitForTimeout"}) : Ops(r)[i].ok
        /\ (handler[r].pc = "evaluate" \/ Calls(r, {"evaluate"}) # {}) =>
              /\ \E i \in Calls(r, {"goto"}) : Ops(r)[i].ok
              /\ \E i \in Calls(r, {"waitForTimeout"}) : Ops(r)[i].ok
        /\ (handler[r].pc = "screenshot" \/ Calls(r, {"screenshot"}) # {}) =>
              /\ \E i \in Calls(r, {"evaluate"}) : Ops(r)[i].ok
              /\ handler[r].productData # undefined
        /\ handler[r].productData # undefined <=>
              \E i \in Calls(r, {"evaluate"}) : Ops(r)[i].ok

\* a request went through a whole Richelieu login and on to the capture
C13_Witness ==
    \E r \in Reqs :
        /\ Calls(r, {"rl_finalWait"}) # {}
        /\ Calls(r, {"screenshot"}) # {}

VariantOf(url) ==
    IF \E k \in DOMAIN Priority : Matches(url, Priority[k])
    THEN Priority[CHOOSE k \in DOMAIN Priority :
                     /\ Matches(url, Priority[k])
                     /\ \A j \in 1..(k - 1) : ~Matches(url, Priority[j])]
    ELSE Generic

\* the strategy bound to each variant
BoundStrategy ==
    [v \in {Richelieu, HomeDepot, Lowes, Amazon, Generic} |->
        IF v = Richelieu THEN "scrapeRichelieu"
        ELSE IF v = HomeDepot THEN "scrapeHomeDepot"
        ELSE IF v = Lowes THEN "scrapeLowes"
        ELSE IF v = Amazon THEN "scrapeAmazon"
        ELSE "scrapeGeneric"]

NextSite(r, i) == IF i < Len(Ops(r)) THEN Ops(r)[i + 1].at ELSE handler[r].pc

\* C16: in loginToRichelieu, a sign-in probe that finds nothing or faults,
\* a faulting click on the sign-in element and a faulting wait after it are
\* followed by the visibility wait, and the visibility wait, timed out or
\* not, by the fill of the identifier field with the username; a fault of
\* the login-page navigation, of a fill or of the submit click is followed
\* by the navigation to targetUrl with no further call of the flow, the
\* error having been logged by the handler's login catch.
C16_RichelieuTolerance ==
    \A r \in Reqs :
        \A i \in DOMAIN Ops(r) :
            LET c == Ops(r)[i] IN
            /\ c.at = "rl_query" =>
                  IF c.ok THEN NextSite(r, i) \in {"rl_click", "rl_waitForSelector"}
                  ELSE NextSite(r, i) = "rl_waitForSelector"
            /\ c.at = "rl_click" =>
                  NextSite(r, i) = IF c.ok THEN "rl_clickWait" ELSE "rl_waitForSelector"
            /\ c.at = "rl_clickWait" => NextSite(r, i) = "rl_waitForSelector"
            /\ c.at = "rl_waitForSelector" =>
                  /\ NextSite(r, i) = "rl_fillUser"
                  /\ i < Len(Ops(r)) =>
                        /\ Ops(r)[i + 1].op = "page.fill"
                        /\ Ops(r)[i + 1].arg = handler[r].credentials.username
            /\ (c.at \in {"rl_goto", "rl_fillUser", "rl_fillPass", "rl_submit"} /\ ~c.ok) =>
                  /\ NextSite(r, i) = "goto"
                  /\ \A j \in DOMAIN Ops(r) : j > i => Ops(r)[j].at \notin LoginSites
                  /\ \E k \in DOMAIN logs[r] :
                        logs[r][k].line = 80 /\ ErrorOf(c.op) \in logs[r][k].vals
            /\ (c.at \in {"rl_fillUser", "rl_fillPass", "rl_submit"} /\ c.ok) =>
                  NextSite(r, i) =
                      CASE c.at = "rl_fillUser" -> "rl_fillPass"
                        [] c.at = "rl_fillPass" -> "rl_submit"
                        [] c.at = "rl_submit"   -> "rl_finalWait"

\* the click on the sign-in element faulted, the visibility wait timed out,
\* and the identifier field was still filled
C16_Witness ==
    \E r \in Reqs :
        /\ \E i \in Faults(r) : Ops(r)[i].at = "rl_click"
        /\ \E i \in Faults(r) : Ops(r)[i].at = "rl_waitForSelector"
        /\ \E i \in Calls(r, {"rl_fillUser"}) : Ops(r)[i].arg = Username

\* ----------------------------------------------------------------- C18
RlSites == {"rl_goto", "rl_settle", "rl_query", "rl_click", "rl_clickWait",
            "rl_waitForSelector", "rl_fillUser", "rl_fillPass", "rl_submit", "rl_finalWait"}

GlSites == {"gl_goto", "gl_fillUser", "gl_fillPass", "gl_submit", "gl_wait"}

\* the flow whose call sites are given was entered by request r
FlowRan(r, sites) == Calls(r, sites) # {} \/ handler[r].pc \in sites

\* the name contains "richelieu" in some mix of upper and lower case
NamesRichelieu(name) ==
    /\ name \notin {undefined, EmptyString}
    /\ \E i \in DOMAIN name.str : name.str[i] \in {"richelieu", "Richelieu", "RICHELIEU"}

\* C18: for a request with a non-empty username and password whose page was
\* created, loginToRichelieu is entered iff credentials.supplierName
\* contains "richelieu" in any letter case (whatever the target url), else
\* genericLogin is entered iff credentials.loginUrl is present, else no flow
\* is entered and the only navigation is that to targetUrl; never both
\* flows, never a flow twice, and no flow before the page exists.
C18_FlowFromCredentials ==
    \A r \in Reqs :
        LET credentials == handler[r].credentials
            pageCreated == \E i \in Calls(r, {"newPage"}) : Ops(r)[i].ok
        IN  /\ ~pageCreated => (~FlowRan(r, RlSites) /\ ~FlowRan(r, GlSites))
            /\ (pageCreated /\ ~NoUsableCredentials(r)) =>
                  /\ FlowRan(r, RlSites) <=> NamesRichelieu(credentials.supplierName)
                  /\ FlowRan(r, GlSites) <=>
                        (~NamesRichelieu(credentials.supplierName)
                           /\ credentials.loginUrl \notin {undefined, EmptyString})
                  /\ ~(FlowRan(r, RlSites) /\ FlowRan(r, GlSites))
                  /\ Cardinality(Calls(r, {"rl_goto", "gl_goto"})) <= 1
                  /\ (~FlowRan(r, RlSites) /\ ~FlowRan(r, GlSites)) =>
                        \A i \in DOMAIN Ops(r) :
                            Ops(r)[i].op = "page.goto" => Ops(r)[i].arg = handler[r].url

\* a request for a non-Richelieu url whose supplierName is "Richelieu
\* Hardware" and whose loginUrl is set went through loginToRichelieu only
C18_Witness ==
    \E r \in Reqs :
        /\ handler[r].url = OtherUrl
        /\ handler[r].credentials # undefined
        /\ handler[r].credentials.supplierName = Str(<<"Richelieu", " Hardware">>)
        /\ handler[r].credentials.loginUrl = LoginPage
        /\ Calls(r, {"rl_finalWait"}) # {}
        /\ Calls(r, {"goto"}) # {}

\* ----------------------------------------------------------------- C19
\* C19 (as stated): in every execution of the handler browser.close is
\* invoked at most once when chromium.launch resolved, and not at all when
\* it did not.
C19_AsStated ==
    \A r \in Reqs :
        Cardinality(Calls(r, {"close", "catch_close"})) <=
            IF \E i \in Calls(r, {"launch"}) : Ops(r)[i].ok THEN 1 ELSE 0

\* ----------------------------------------------------------------- C20
\* the Authorization header is "Bearer " followed by the configured secret
\* (the default secret when none is configured)
ValidToken(r) ==
    /\ handler[r].authHeader # undefined
    /\ handler[r].authHeader.str =
          <<"Bearer ">> \o (IF env \in {undefined, EmptyString} THEN DefaultSecret ELSE env).str

\* C20: a request with a url whose Authorization header is absent or is not
\* "Bearer <expected token>" is answered 401 Unauthorized and nothing else:
\* no browser launch, no call on a page, no session; and a request whose
\* url is missing is answered 400 'URL is required', with the same absence
\* of any session, whether or not its token is valid.
C20_UrlThenToken ==
    \A r \in Reqs :
        handler[r].pc # "idle" =>
            /\ (handler[r].url \notin {undefined, EmptyString} /\ ~ValidToken(r)) =>
                  /\ handler[r].pc = "done"
                  /\ res[r] = <<[status |-> 401, body |-> [error |-> "Unauthorized"]]>>
                  /\ host[r] = IdleHost
                  /\ handler[r].browser = undefined
            /\ handler[r].url \in {undefined, EmptyString} =>
                  /\ res[r] = <<[status |-> 400, body |-> [error |-> "URL is required"]]>>
                  /\ host[r] = IdleHost
            /\ (handler[r].url \notin {undefined, EmptyString} /\ ValidToken(r)) =>
                  (~Responded(r) \/ Status(r) \notin {400, 401})

\* with RAILWAY_SCRAPER_SECRET set, a request bearing the default secret
\* was answered 401 without a launch
C20_Witness ==
    \E r \in Reqs :
        /\ env = RailwaySecret
        /\ handler[r].url = LowesUrl
        /\ handler[r].authHeader = Bearer(DefaultSecret)
        /\ Responded(r) /\ Status(r) = 401
        /\ Ops(r) = << >>

\* ----------------------------------------------------------------- C12
\* the state that belongs to request r
Own(r) == <<handler[r], host[r], logs[r], res[r]>>

\* the error of the first call of request r that faulted
FirstFault(r) ==
    LET i == CHOOSE k \in Faults(r) : \A j \in Faults(r) : k <= j
    IN  ErrorOf(Ops(r)[i].op)

\* C12: under any interleaving of the handlers, (a) the handle a request
\* holds designates the browser it launched itself, the page of that browser
\* is only ever at the request's own url, and the record extracted is that
\* of its own url; (b) the outcome of an answered request is what its own
\* calls determine, as when it runs alone: Success with the record and
\* supplier of its own url iff none of its own calls faulted, else the
\* Failure carrying the error of its first faulted call; (c) every step
\* changes the state of one request only, so no request operates on or
\* closes the session of another.
C12_Isolated ==
    /\ [](\A r \in Reqs :
            /\ handler[r].browser \in {undefined, [session |-> r]}
            /\ host[r].location \in {undefined, handler[r].url}
            /\ handler[r].productData # undefined =>
                  handler[r].productData =
                      [scraper |-> ScraperOf(detectSupplier(handler[r].url)),
                       url     |-> handler[r].url]
            /\ Responded(r) =>
                  /\ Len(res[r]) = 1
                  /\ Status(r) = 200 <=> Faults(r) = {}
                  /\ Status(r) = 200 =>
                        /\ res[r][1].body.data.url = handler[r].url
                        /\ res[r][1].body.supplierName = detectSupplier(handler[r].url)
                  /\ Status(r) # 200 =>
                        /\ Status(r) = 500
                        /\ res[r][1].body.details = FirstFault(r))
    /\ [][\A r \in Reqs :
            Own(r)' # Own(r) => \A q \in Reqs \ {r} : Own(q)' = Own(q)]_vars

\* two requests for different urls are suspended at the same time, each
\* with its own browser open on its own url and its own record extracted
C12_Witness ==
    \E r, q \in Reqs :
        /\ handler[r].pc = "close" /\ handler[q].pc = "screenshot"
        /\ host[r].session = "open" /\ host[q].session = "open"
        /\ handler[r].productData.url = LowesUrl
        /\ handler[q].productData.url = AmazonUrl

\* ----------------------------------------------------------------- C11
\* every selector a strategy looks for
SelectorsOf(scraper) ==
    CASE scraper = "scrapeRichelieu" ->
            RichelieuName \o RichelieuSku \o RichelieuPrice \o RichelieuPublicPrice
              \o RichelieuPriceBlockItems \o RichelieuMsrp \o RichelieuDescription
              \o RichelieuBrand \o RichelieuImage \o RichelieuCategory
              \o RichelieuPriceHTML \o RichelieuSkuHTML
      [] scraper = "scrapeHomeDepot" ->
            HomeDepotName \o HomeDepotSku \o HomeDepotPrice \o HomeDepotBrand \o HomeDepotImage
      [] scraper = "scrapeLowes" ->
            LowesName \o LowesSku \o LowesPrice \o LowesBrand \o LowesImage
      [] scraper = "scrapeAmazon" ->
            AmazonName \o AmazonPrice \o AmazonBrand \o AmazonImage
      [] scraper = "scrapeGeneric" ->
            GenericName \o GenericSku \o GenericPrice \o GenericDescription \o GenericImage

\* the document has none of the elements the strategy looks for
Bare(dom, scraper) ==
    \A i \in DOMAIN dom : ~MatchesList(dom[i], SelectorsOf(scraper))

\* C11 (as stated): a strategy run on a page with none of the elements its
\* selectors look for returns a record in which every field other than url
\* is null, missing or the empty string; and scrapeAmazon returns sku null
\* for every page.
C11_AsStated ==
    page.scraper # "" =>
        /\ Bare(page.dom, page.scraper) =>
              \A f \in DOMAIN page.data \ {"url"} :
                  page.data[f] \in {null, undefined, EmptyString}
        /\ page.scraper = "scrapeAmazon" => page.data.sku = null

\* C11 (amended): a strategy run on a page with none of the elements its
\* selectors look for returns a record whose url is the page's location
\* and whose other product fields are null (categoryPath: the empty
\* string); only scrapeRichelieu's record has a debug field, and it holds
\* the two fixed placeholder texts; and scrapeAmazon returns sku null for
\* every page.
C11_BareRecord ==
    page.scraper # "" =>
        /\ Bare(page.dom, page.scraper) =>
              /\ \A f \in DOMAIN page.data \ {"url", "debug"} :
                    page.data[f] \in {null, EmptyString}
              /\ page.data.url = page.location
              /\ "debug" \in DOMAIN page.data <=> page.scraper = "scrapeRichelieu"
              /\ page.scraper = "scrapeRichelieu" =>
                    /\ page.data.categoryPath = EmptyString
                    /\ page.data.debug = [priceHTML |-> NoPriceElement,
                                          skuHTML   |-> NoSkuElement]
        /\ page.scraper = "scrapeAmazon" => page.data.sku = null

\* scrapeRichelieu ran on a two-element page with nothing it looks for and
\* returned the placeholders
C11_Witness ==
    /\ page.scraper = "scrapeRichelieu"
    /\ Len(page.dom) = 2
    /\ Bare(page.dom, "scrapeRichelieu")
    /\ page.data.name = null
    /\ page.data.debug.priceHTML = NoPriceElement

\* ----------------------------------------------------------------- C17
\* the price candidates of scrapeRichelieu in their written order
PriceCandidates == RichelieuPrice \o RichelieuPublicPrice

\* the elements whose text is not empty and that match the k-th candidate
Yielding(dom, k) ==
    {i \in DOMAIN dom : MatchesSel(dom[i], PriceCandidates[k]) /\ trim(dom[i].text) # EmptyString}

\* C17 (as stated): on a page whose price elements all have a non-empty
\* text, the price scrapeRichelieu returns is the text of the element of
\* the highest-priority candidate that matches one, wherever the elements
\* stand in the document.
C17_AsStated ==
    (/\ page.scraper = "scrapeRichelieu"
     /\ \A i \in DOMAIN page.dom :
           MatchesList(page.dom[i], PriceCandidates) => trim(page.dom[i].text) # EmptyString) =>
        LET ks == {k \in DOMAIN PriceCandidates : Yielding(page.dom, k) # {}}
        IN  ks # {} =>
              page.data.price = trim(page.dom[Lowest(Yielding(page.dom, Lowest(ks)))].text)

====
